---- MODULE Spec2Model ----
(***************************************************************************)
(* Model of ECOSIM.py: a Streamlit page script that loads a text-generation *)
(* pipeline, offers a sidebar chatbot, reads eleven sliders, runs the       *)
(* three-species difference-equation simulation run_simulation and renders  *)
(* charts and statistics.                                                   *)
(*                                                                         *)
(* Numbers.  The script computes in Python floats: finite precision, every  *)
(* operation rounded to nearest, ties to even.  The model keeps that shape  *)
(* at a coarser resolution: a number x is the integer x * Scale, and every  *)
(* product and quotient is rounded to the nearest multiple of 1/Scale, ties *)
(* to even.  Sums and differences are exact at this resolution.             *)
(***************************************************************************)
EXTENDS Integers, Sequences, FiniteSets

VARIABLES pc, run, button, chat_out, sliders,
          plants, herbivores, predators, t,
          plant_pop, herbivore_pop, predator_pop,
          raw, rendered, last

vars == <<pc, run, button, chat_out, sliders,
          plants, herbivores, predators, t,
          plant_pop, herbivore_pop, predator_pop,
          raw, rendered, last>>

(***************************************************************************)
(* Bounds of the model.                                                    *)
(***************************************************************************)
\* Largest simulation duration explored (the slider allows up to 200).
MaxSteps == 10
\* Number of consecutive runs of the page script in one session.
MaxRuns == 2

(***************************************************************************)
(* Finite-precision arithmetic.                                            *)
(***************************************************************************)
\* Resolution of the modelled numbers: 1/Scale.
Scale == 10000

\* The number n/100 and the whole number n at this resolution.
Hundredths(n) == n * (Scale \div 100)
Whole(n) == n * Scale

\* f + rem/d rounded to the nearest integer, ties to even (0 <= rem < d).
RoundEven(f, rem, d) ==
    IF 2 * rem < d THEN f
    ELSE IF 2 * rem > d THEN f + 1
    ELSE IF f % 2 = 0 THEN f ELSE f + 1

\* a * b, rounded.  The product is taken in two parts so that no
\* intermediate value exceeds 32-bit integers.
FMul(a, b) ==
    LET q == a \div Scale
        r == a % Scale
        p == r * b
    IN  RoundEven(q * b + (p \div Scale), p % Scale, Scale)

\* a / b, rounded, for b > 0.  a/b is computed as 1 - (b-a)/b, which keeps
\* the intermediate product (b-a)*Scale small for the only quotient the
\* script takes, herbivores / (herbivores + 1).
FDiv(a, b) ==
    LET n == (b - a) * Scale
        q == n \div b
        r == n % b
    IN  IF r = 0 THEN Scale - q
        ELSE RoundEven(Scale - q - 1, b - r, b)

\* max(x, 0)
Max0Identity(x) == x
Max0Abs(x) == IF x < 0 THEN 0 - x ELSE x
Max0(x) == IF x > 0 THEN x ELSE 0

(***************************************************************************)
(* Slider positions (lines 55-67).  Each set holds values inside the       *)
(* slider's range; rates and indices are in hundredths.                    *)
(***************************************************************************)
SliderMinSteps == 10

PlantGrowthRates == {Hundredths(1), Hundredths(20)}
HerbivoreBirthRates == {Hundredths(10), Hundredths(30)}
PredatorBirthRates == {Hundredths(5), Hundredths(20)}
InitialPlants == {Whole(50), Whole(100)}
InitialHerbivores == {Whole(10), Whole(30), Whole(100)}
InitialPredators == {Whole(10), Whole(50)}
WaterAvailabilities == {Hundredths(0), Hundredths(50)}
TemperatureVariations == {Whole(0 - 10), Whole(25), Whole(40)}
SoilQualities == {Hundredths(70), Hundredths(100)}
HumanImpacts == {Hundredths(20), Hundredths(100)}

SliderStates(steps) ==
    [plant_growth_rate : PlantGrowthRates,
     herbivore_birth_rate : HerbivoreBirthRates,
     predator_birth_rate : PredatorBirthRates,
     initial_plants : InitialPlants,
     initial_herbivores : InitialHerbivores,
     initial_predators : InitialPredators,
     time_steps : steps,
     water_availability : WaterAvailabilities,
     temperature_variation : TemperatureVariations,
     soil_quality : SoilQualities,
     human_impact : HumanImpacts]

\* The default slider positions.
Defaults(steps) ==
    [plant_growth_rate |-> Hundredths(20),
     herbivore_birth_rate |-> Hundredths(10),
     predator_birth_rate |-> Hundredths(5),
     initial_plants |-> Whole(100),
     initial_herbivores |-> Whole(30),
     initial_predators |-> Whole(10),
     time_steps |-> steps,
     water_availability |-> Hundredths(50),
     temperature_variation |-> Whole(25),
     soil_quality |-> Hundredths(70),
     human_impact |-> Hundredths(20)]

(***************************************************************************)
(* The update rules of run_simulation (lines 75-77), before the clamp.     *)
(***************************************************************************)
\* plants + plants * plant_growth_rate * (1 + water_availability
\*        - 0.1 * human_impact) - herbivores * 0.01
PlantRaw(P, H) ==
    P + FMul(FMul(P, sliders.plant_growth_rate),
             Whole(1) + sliders.water_availability
                      - FMul(Hundredths(10), sliders.human_impact))
      - FMul(H, Hundredths(1))

\* herbivores + herbivores * herbivore_birth_rate * (1 + soil_quality
\*        - 0.05 * temperature_variation) - predators * 0.01
HerbivoreRawNoOfftake(H, C) ==
    H + FMul(FMul(H, sliders.herbivore_birth_rate),
             Whole(1) + sliders.soil_quality
                      - FMul(Hundredths(5), sliders.temperature_variation))
HerbivoreRaw(H, C) ==
    H + FMul(FMul(H, sliders.herbivore_birth_rate),
             Whole(1) + sliders.soil_quality
                      - FMul(Hundredths(5), sliders.temperature_variation))
      - FMul(C, Hundredths(1))

\* herbivores / (herbivores + 1)
SaturationInverted(H) == IF H = 0 THEN 0 ELSE FDiv(H + Whole(1), H)
Saturation(H) == FDiv(H, H + Whole(1))

\* predators + predators * predator_birth_rate * (herbivores / (herbivores + 1))
PredatorRawMortality(C, H) ==
    C + FMul(FMul(C, sliders.predator_birth_rate), Saturation(H))
      - FMul(C, Hundredths(1))
PredatorRaw(C, H) ==
    C + FMul(FMul(C, sliders.predator_birth_rate), Saturation(H))

\* for t in range(time_steps)
LoopCondInclusive == t <= sliders.time_steps
LoopCond == t < sliders.time_steps

NoRaw == [p |-> 0, h |-> 0, c |-> 0, m |-> 0]
NoTrace == [valid |-> FALSE, sliders |-> Defaults(SliderMinSteps),
            plants |-> <<>>, herbivores |-> <<>>, predators |-> <<>>]

(***************************************************************************)
(* The page script, one run after another.                                 *)
(***************************************************************************)
Init ==
    /\ pc = "load"
    /\ run = 1
    /\ button = FALSE
    /\ chat_out = "none"
    /\ sliders \in SliderStates(SliderMinSteps .. MaxSteps)
    /\ plants = 0 /\ herbivores = 0 /\ predators = 0 /\ t = 0
    /\ plant_pop = <<>> /\ herbivore_pop = <<>> /\ predator_pop = <<>>
    /\ raw = NoRaw
    /\ rendered = FALSE
    /\ last = NoTrace

simVars == <<plants, herbivores, predators, t,
             plant_pop, herbivore_pop, predator_pop, raw>>

\* line 8: the pipeline is built.
LoadModelOk ==
    /\ pc = "load"
    /\ pc' = "chat"
    /\ UNCHANGED <<run, button, chat_out, sliders, simVars, rendered, last>>

\* line 8: building the pipeline raises; nothing encloses the call, so the
\* script run ends here.
LoadModelFails ==
    /\ pc = "load"
    /\ pc' = "aborted"
    /\ UNCHANGED <<run, button, chat_out, sliders, simVars, rendered, last>>

\* line 44: the button was not pressed in this run.
ChatSkip ==
    /\ pc = "chat"
    /\ button' = FALSE
    /\ chat_out' = "none"
    /\ pc' = "sliders"
    /\ UNCHANGED <<run, sliders, simVars, rendered, last>>

\* lines 44-49: the button was pressed and the model answered.
ChatSuccess ==
    /\ pc = "chat"
    /\ button' = TRUE
    /\ chat_out' = "success"
    /\ pc' = "sliders"
    /\ UNCHANGED <<run, sliders, simVars, rendered, last>>

\* lines 44-51: the button was pressed and the call (or the indexing of its
\* result) raised; the handler writes the error to the sidebar.
ChatError ==
    /\ pc = "chat"
    /\ button' = TRUE
    /\ chat_out' = "error"
    /\ pc' = "sliders"
    /\ UNCHANGED <<run, sliders, simVars, rendered, last>>

\* lines 55-67, 85, 71-72: the sliders are read and run_simulation starts.
StartSimulationKeepLists ==
    /\ pc = "sliders"
    /\ plants' = sliders.initial_plants
    /\ herbivores' = sliders.initial_herbivores
    /\ predators' = sliders.initial_predators
    /\ t' = 0
    /\ raw' = NoRaw
    /\ pc' = "loop"
    /\ UNCHANGED <<run, button, chat_out, sliders, rendered, last,
                   plant_pop, herbivore_pop, predator_pop>>
StartSimulation ==
    /\ pc = "sliders"
    /\ plants' = sliders.initial_plants
    /\ herbivores' = sliders.initial_herbivores
    /\ predators' = sliders.initial_predators
    /\ plant_pop' = <<>>
    /\ herbivore_pop' = <<>>
    /\ predator_pop' = <<>>
    /\ t' = 0
    /\ raw' = NoRaw
    /\ pc' = "loop"
    /\ UNCHANGED <<run, button, chat_out, sliders, rendered, last>>

\* lines 74-80: one iteration.  The three assignments run in order, so the
\* predator update reads the herbivore value assigned on the line before.
LoopStep ==
    /\ pc = "loop"
    /\ LoopCond
    /\ LET rp == PlantRaw(plants, herbivores)
           np == Max0(rp)
           rh == HerbivoreRaw(herbivores, predators)
           nh == Max0(rh)
           rc == PredatorRaw(predators, nh)
           nc == Max0(rc)
       IN  /\ plants' = np
           /\ herbivores' = nh
           /\ predators' = nc
           /\ plant_pop' = Append(plant_pop, np)
           /\ herbivore_pop' = Append(herbivore_pop, nh)
           /\ predator_pop' = Append(predator_pop, nc)
           /\ raw' = [p |-> rp, h |-> rh, c |-> rc, m |-> Saturation(nh)]
    /\ t' = t + 1
    /\ UNCHANGED <<pc, run, button, chat_out, sliders, rendered, last>>

\* lines 82, 85: the loop is over and the three lists are returned.
LoopExit ==
    /\ pc = "loop"
    /\ ~LoopCond
    /\ pc' = "render"
    /\ UNCHANGED <<run, button, chat_out, sliders, simVars, rendered, last>>

\* lines 88-155: the table, the charts and the statistics.  pandas raises
\* when the columns of population_data differ in length from range(time_steps).
Render ==
    /\ pc = "render"
    /\ IF /\ Len(plant_pop) = sliders.time_steps
          /\ Len(herbivore_pop) = sliders.time_steps
          /\ Len(predator_pop) = sliders.time_steps
       THEN pc' = "done" /\ rendered' = TRUE
       ELSE pc' = "aborted" /\ rendered' = FALSE
    /\ UNCHANGED <<run, button, chat_out, sliders, simVars, last>>

\* A button click reruns the script from its first line with the same
\* slider positions; the page shows the previous output until replaced.
Rerun ==
    /\ pc \in {"done", "aborted"}
    /\ run < MaxRuns
    /\ run' = run + 1
    /\ pc' = "load"
    /\ button' = FALSE
    /\ chat_out' = "none"
    /\ rendered' = FALSE
    /\ last' = IF pc = "done"
               THEN [valid |-> TRUE, sliders |-> sliders,
                     plants |-> plant_pop, herbivores |-> herbivore_pop,
                     predators |-> predator_pop]
               ELSE last
    /\ UNCHANGED <<sliders, simVars>>

Next ==
    \/ LoadModelOk
    \/ LoadModelFails
    \/ ChatSkip
    \/ ChatSuccess
    \/ ChatError
    \/ StartSimulation
    \/ LoopStep
    \/ LoopExit
    \/ Render
    \/ Rerun

Spec == Init /\ [][Next]_vars

(***************************************************************************)
(* run_simulation as a function: its arguments and the module-level rates  *)
(* and modifiers are drawn from the sets above, time_steps from 1 up.      *)
(***************************************************************************)
SimInit ==
    /\ pc = "loop"
    /\ run = 1
    /\ button = FALSE
    /\ chat_out = "none"
    /\ sliders \in SliderStates(1 .. MaxSteps)
    /\ plants = sliders.initial_plants
    /\ herbivores = sliders.initial_herbivores
    /\ predators = sliders.initial_predators
    /\ t = 0
    /\ plant_pop = <<>> /\ herbivore_pop = <<>> /\ predator_pop = <<>>
    /\ raw = NoRaw
    /\ rendered = FALSE
    /\ last = NoTrace

SimNext ==
    \/ LoopStep
    \/ LoopExit

SimSpec == SimInit /\ [][SimNext]_vars

(***************************************************************************)
(* Properties.  PrevP(i), PrevH(i), PrevC(i) are the populations before     *)
(* iteration i: the initial ones for the first iteration, the stored entry *)
(* i-1 afterwards.                                                         *)
(***************************************************************************)
PrevP(i) == IF i = 1 THEN sliders.initial_plants ELSE plant_pop[i - 1]
PrevH(i) == IF i = 1 THEN sliders.initial_herbivores ELSE herbivore_pop[i - 1]
PrevC(i) == IF i = 1 THEN sliders.initial_predators ELSE predator_pop[i - 1]

Steps == 1 .. Len(predator_pop)

\* C1: in every time step all three updates are computed from the same
\* pre-update snapshot (P, H, C); in particular the predator update uses the
\* herbivore value from before this step's herbivore update.
C1_SnapshotUpdate ==
    \A i \in Steps :
        /\ plant_pop[i] = Max0(PlantRaw(PrevP(i), PrevH(i)))
        /\ herbivore_pop[i] = Max0(HerbivoreRaw(PrevH(i), PrevC(i)))
        /\ predator_pop[i] = Max0(PredatorRaw(PrevC(i), PrevH(i)))

\* What the code does instead: plants and herbivores read the pre-update
\* values, predators read the herbivore value stored for the same step.
C1_SequentialUpdate ==
    \A i \in Steps :
        /\ plant_pop[i] = Max0(PlantRaw(PrevP(i), PrevH(i)))
        /\ herbivore_pop[i] = Max0(HerbivoreRaw(PrevH(i), PrevC(i)))
        /\ predator_pop[i] = Max0(PredatorRaw(PrevC(i), herbivore_pop[i]))

Near(x, y) == x - y <= 1 /\ y - x <= 1

C3_NonNegative ==
    /\ plants >= 0 /\ herbivores >= 0 /\ predators >= 0
    /\ \A i \in 1 .. Len(plant_pop) : plant_pop[i] >= 0
    /\ \A i \in 1 .. Len(herbivore_pop) : herbivore_pop[i] >= 0
    /\ \A i \in 1 .. Len(predator_pop) : predator_pop[i] >= 0

C3_Witness ==
    /\ pc = "render"
    /\ \E i \in Steps : plant_pop[i] = 0
    /\ t = sliders.time_steps

\* C4: every iteration appends exactly one value to each of the three lists
\* and the loop runs exactly time_steps iterations, so the returned lists
\* have the same length, time_steps.
C4_Length ==
    /\ Len(plant_pop) = t /\ Len(herbivore_pop) = t /\ Len(predator_pop) = t
    /\ t <= sliders.time_steps
    /\ pc = "render" =>
          /\ Len(plant_pop) = sliders.time_steps
          /\ Len(herbivore_pop) = sliders.time_steps
          /\ Len(predator_pop) = sliders.time_steps

C4_Witness ==
    /\ pc = "render"
    /\ sliders.time_steps > 1
    /\ Len(plant_pop) = sliders.time_steps
    /\ Len(predator_pop) = Len(plant_pop)

\* C5: for each species the value stored for a step, and carried into the
\* next one, is 0 when the raw update is negative and the raw update itself
\* otherwise.
C5_Clamp ==
    t > 0 =>
        /\ plant_pop[t] = (IF raw.p < 0 THEN 0 ELSE raw.p)
        /\ herbivore_pop[t] = (IF raw.h < 0 THEN 0 ELSE raw.h)
        /\ predator_pop[t] = (IF raw.c < 0 THEN 0 ELSE raw.c)
        /\ plants = plant_pop[t]
        /\ herbivores = herbivore_pop[t]
        /\ predators = predator_pop[t]

C5_Witness ==
    /\ t > 1
    /\ raw.h < 0
    /\ herbivore_pop[t] = 0
    /\ raw.p > 0
    /\ plant_pop[t] = raw.p

\* C6 as stated: the multiplier H/(H+1) lies in [0, 1), and the new predator
\* population never exceeds C + r*C.
C6_SaturationBelowOne ==
    t > 0 =>
        /\ 0 <= raw.m /\ raw.m < Whole(1)
        /\ predator_pop[t] <=
              PrevC(t) + FMul(PrevC(t), sliders.predator_birth_rate)

\* C6 amended: the multiplier H/(H+1) lies in [0, 1] (in finite precision
\* it rounds to exactly 1 once H is large), and the new predator population
\* never exceeds C + r*C.
C6_SaturationBound ==
    t > 0 =>
        /\ 0 <= raw.m /\ raw.m <= Whole(1)
        /\ predator_pop[t] <=
              PrevC(t) + FMul(PrevC(t), sliders.predator_birth_rate)

C6_Witness ==
    /\ t > 0
    /\ raw.m = Whole(1)
    /\ predator_pop[t] = PrevC(t) + FMul(PrevC(t), sliders.predator_birth_rate)

\* C7: no failure of the text-generation model, with or without the button
\* pressed, keeps the page run from computing and rendering the simulation:
\* a run never ends before the render, and a failed call shows its error.
C7_ModelFailureNeverBlocksPage ==
    /\ pc # "aborted"
    /\ pc = "done" => rendered

\* C8: two runs with the same parameter set produce identical traces,
\* whatever the chatbot did and whatever the previous run left behind.
C8_Deterministic ==
    (pc \in {"render", "done"} /\ last.valid /\ last.sliders = sliders) =>
        /\ plant_pop = last.plants
        /\ herbivore_pop = last.herbivores
        /\ predator_pop = last.predators

C8_Witness ==
    /\ pc = "done"
    /\ run > 1
    /\ last.valid
    /\ last.sliders = sliders
    /\ chat_out = "error"
    /\ Len(last.plants) = sliders.time_steps

\* C9: extinction of plants or of herbivores is absorbing: once a stored
\* value is 0 (nothing positive is left of the species), every later stored
\* value of that species is 0: the update of an extinct population only
\* subtracts the offtake and is then clamped.
C9_ExtinctionAbsorbing ==
    \A i \in Steps : \A j \in Steps :
        i < j =>
            /\ plant_pop[i] <= 0 => plant_pop[j] = 0
            /\ herbivore_pop[i] <= 0 => herbivore_pop[j] = 0

C9_Witness ==
    /\ t > 2
    /\ plant_pop[t - 1] = 0
    /\ plant_pop[t] = 0
    /\ herbivore_pop[t] > 0
    /\ plant_pop[1] > 0

\* C10: predators never decrease from one step to the next, stay positive,
\* are never touched by the clamp, and stay exactly constant across a step
\* whose herbivore value is 0.
C10_PredatorsNeverDecrease ==
    /\ \A i \in Steps :
          /\ predator_pop[i] >= PrevC(i)
          /\ predator_pop[i] > 0
          /\ herbivore_pop[i] = 0 => predator_pop[i] = PrevC(i)
    /\ t > 0 => (raw.c > 0 /\ predators = raw.c)

C10_Witness ==
    /\ t > 1
    /\ herbivore_pop[t] = 0
    /\ predator_pop[t] = predator_pop[t - 1]
    /\ predator_pop[1] > sliders.initial_predators

====
